---- MODULE Spec2Model ----
(***************************************************************************)
(* Recording controller of speakwise-app: the useAudioRecorder hook        *)
(* (src/hooks/useAudioRecorder.ts) and the duration timer of the           *)
(* AudioRecorder component (src/components/AudioUploader.tsx), modelled as *)
(* a state machine over the hook's React state and refs and over the       *)
(* MediaRecorder / MediaStream objects it creates.                         *)
(*                                                                         *)
(* Every startRecording() call that reaches getUserMedia is one session,   *)
(* numbered 1, 2, ...; session s owns stream s and recorder s (the         *)
(* recorder is built on the stream in the same continuation).  The hook's  *)
(* refs hold session numbers, 0 standing for null.  Each handler of the    *)
(* code is one action; the event loop runs them one at a time, in any      *)
(* order the platform allows.                                              *)
(*                                                                         *)
(* The similarity scorer of src/components/AnalysisResult.tsx              *)
(* (calculateTextSimilarity over calculateLevenshteinDistance) is a pure   *)
(* function; SpecScorer runs it on every pair of a bounded set of strings. *)
(***************************************************************************)
EXTENDS Integers, Sequences, FiniteSets, TLC

\* Bounds of the model.
MaxSessions == 2
MaxData == 1

\* AudioUploader.tsx: const MAX_DURATION_SECONDS = 300
MAX_DURATION_SECONDS == 300

Sessions == 1..MaxSessions

\* The declared RecordingStatus type (useAudioRecorder.ts:4).
RecordingStatus == {"inactive", "recording", "paused", "stopped"}

\* Values of the hook's error state.
NoError == "null"
PermissionMessage == "Microphone permission denied. Please allow microphone access in your browser settings."
OtherMessage == "err.message"
RecorderErrorMessage == "Recording error: name"

\* What getUserMedia rejects with, as the catch branch tells failures apart:
\* an Error whose message contains 'Permission denied', or an Error with
\* another message.  (getUserMedia rejects with a DOMException or a TypeError,
\* both Errors, so the non-Error arm of line 60 is never taken.)
Rejections == {"PermissionDenied", "OtherError"}

\* MediaRecorder.mimeType as the platform reports it for an audio-only stream;
\* "" when it reports none.  Every recorder of one page reports the same type.
MimeTypes == {"", "audio/ogg"}
DefaultMimeType == "audio/webm"

NoResult == [blob |-> <<>>, mimeType |-> "none"]

VARIABLES
  status,            \* useState<RecordingStatus>
  error,             \* useState<string | null>
  mediaRecorderRef,  \* mediaRecorderRef.current: session of the recorder, 0 = null
  streamRef,         \* streamRef.current: session of the stream, 0 = null
  audioChunksRef,    \* audioChunksRef.current: sequence of fragments
  duration,          \* AudioRecorder's duration state (elapsed seconds)
  nSess,             \* number of startRecording() calls that reached getUserMedia
  acq,               \* per session: position of its startRecording() call
  recState,          \* per session: MediaRecorder.state ("none" before construction)
  onstop,            \* per session: whether recorder.onstop is attached
  queue,             \* per session: events the recorder has queued, in order
  nData,             \* per session: number of dataavailable events fired
  live,              \* per session: whether the stream's tracks are live
  mimeType,          \* MediaRecorder.mimeType of the platform's recorders
  stopped,           \* per session: state of the `stopped` promise handed to the caller
  result,            \* per session: what `stopped` resolved with
  ending,            \* per session: what inactivated the recorder
  cancelledAwaiting, \* history: sessions that were awaiting getUserMedia when
                     \* cancelRecording() last ran, no startRecording() since
  cancelled,         \* history: sessions whose requested stop was still in
                     \* flight when cancelRecording() ran
  textA,             \* calculateTextSimilarity's argument a (the script)
  textB,             \* calculateTextSimilarity's argument b (the transcription)
  scoredMaxLength,   \* maxLength as line 67 reads it, 0 when the line is not reached
  scoredDistance,    \* distance as line 67 reads it, 0 when the line is not reached
  similarity,        \* what calculateTextSimilarity returned, "none" before the call
  scorerPc           \* position of the scorer: "idle", "ready" or "done"

vars == <<status, error, mediaRecorderRef, streamRef, audioChunksRef, duration,
          nSess, acq, recState, onstop, queue, nData, live, mimeType, stopped,
          result, ending, cancelled, cancelledAwaiting, textA, textB, scoredMaxLength,
          scoredDistance, similarity, scorerPc>>

hookVars == <<status, error, mediaRecorderRef, streamRef, audioChunksRef>>

recorderVars == <<status, error, mediaRecorderRef, streamRef, audioChunksRef, duration,
                  nSess, acq, recState, onstop, queue, nData, live, mimeType, stopped,
                  result, ending, cancelled, cancelledAwaiting>>

scorerVars == <<textA, textB, scoredMaxLength, scoredDistance, similarity, scorerPc>>

\* The recording controller before its first call.
InitRecorder ==
  /\ status = "inactive"
  /\ error = NoError
  /\ mediaRecorderRef = 0
  /\ streamRef = 0
  /\ audioChunksRef = <<>>
  /\ duration = 0
  /\ nSess = 0
  /\ acq = [s \in Sessions |-> "none"]
  /\ recState = [s \in Sessions |-> "none"]
  /\ onstop = [s \in Sessions |-> FALSE]
  /\ queue = [s \in Sessions |-> <<>>]
  /\ nData = [s \in Sessions |-> 0]
  /\ live = [s \in Sessions |-> FALSE]
  /\ mimeType \in MimeTypes
  /\ stopped = [s \in Sessions |-> "none"]
  /\ result = [s \in Sessions |-> NoResult]
  /\ ending = [s \in Sessions |-> "none"]
  /\ cancelled = {}
  /\ cancelledAwaiting = {}

\* No analysis report is on screen: calculateTextSimilarity has nothing to score.
ScorerIdle ==
  /\ textA = <<>>
  /\ textB = <<>>
  /\ scoredMaxLength = 0
  /\ scoredDistance = 0
  /\ similarity = "none"
  /\ scorerPc = "idle"

Init == InitRecorder /\ ScorerIdle

----------------------------------------------------------------------------
\* Helpers

\* AudioRecorder's timer effect (AudioUploader.tsx:119-144) runs when the
\* rendered status changes: entering 'recording' resets duration to 0 and
\* starts the interval, leaving it clears the interval.  The interval is
\* therefore running exactly while status = "recording".
DurationAfter(newStatus) ==
  IF newStatus = "recording" /\ status # "recording" THEN 0 ELSE duration

\* MediaRecorder.stop(): a recorder that is not recording ignores it; a
\* recording one becomes inactive at once and queues its last dataavailable
\* event followed by its stop event.
RecorderStopQueue(r) ==
  IF recState[r] = "recording"
    THEN [queue EXCEPT ![r] = queue[r] \o <<"dataavailable", "stop">>]
    ELSE queue

RecorderStopState(r) ==
  IF recState[r] = "recording" THEN [recState EXCEPT ![r] = "inactive"] ELSE recState

RecorderStopEnding(r, why) ==
  IF recState[r] = "recording" THEN [ending EXCEPT ![r] = why] ELSE ending

\* The catch branch without its permission arm: the raw message for every
\* rejection.
ErrorMessageUnspecialised(rej) ==
  IF rej = "PermissionDenied" THEN "Permission denied" ELSE OtherMessage

\* The message the catch branch stores for a rejection.
ErrorMessageFor(rej) ==
  LET errorMessage == IF rej = "PermissionDenied" THEN "Permission denied"
                      ELSE OtherMessage
  IN IF errorMessage = "Permission denied" THEN PermissionMessage ELSE errorMessage

----------------------------------------------------------------------------
\* startRecording (useAudioRecorder.ts:13-69)

\* startRecording() without its guard.
NeverAlreadyRecording == FALSE

\* The concurrency guard of lines 16-18.
AlreadyRecording ==
  mediaRecorderRef # 0 /\ recState[mediaRecorderRef] = "recording"

\* startRecording() up to its await: the two state resets of lines 14-15 run
\* before the guard; past the guard the call requests the device and suspends.
StartRecording ==
  /\ status' = "inactive"
  /\ error' = NoError
  /\ duration' = DurationAfter("inactive")
  /\ IF AlreadyRecording
       THEN UNCHANGED <<nSess, acq>>
       ELSE /\ nSess < MaxSessions
            /\ nSess' = nSess + 1
            /\ acq' = [acq EXCEPT ![nSess + 1] = "awaiting"]
  /\ UNCHANGED <<scorerVars, mediaRecorderRef, streamRef, audioChunksRef, recState, onstop,
                 queue, nData, live, mimeType, stopped, result, ending, cancelled>>
  /\ cancelledAwaiting' = {}

\* getUserMedia resolves for session s: lines 21-56 run to the return.
GetUserMediaResolved(s) ==
  /\ acq[s] = "awaiting"
  /\ acq' = [acq EXCEPT ![s] = "granted"]
  /\ live' = [live EXCEPT ![s] = TRUE]
  /\ streamRef' = s
  /\ status' = "recording"
  /\ duration' = DurationAfter("recording")
  /\ mediaRecorderRef' = s
  /\ onstop' = [onstop EXCEPT ![s] = TRUE]
  /\ stopped' = [stopped EXCEPT ![s] = "pending"]
  /\ recState' = [recState EXCEPT ![s] = "recording"]
  /\ queue' = [queue EXCEPT ![s] = <<"start">>]
  /\ UNCHANGED <<scorerVars, error, audioChunksRef, nSess, nData, mimeType, result, ending,
                 cancelled, cancelledAwaiting>>

\* getUserMedia rejects for session s: the catch branch, lines 58-68.
GetUserMediaRejected(s) ==
  /\ acq[s] = "awaiting"
  /\ \E rej \in Rejections :
       /\ error' = ErrorMessageFor(rej)
       /\ acq' = [acq EXCEPT ![s] = rej]
  /\ status' = "inactive"
  /\ duration' = DurationAfter("inactive")
  /\ stopped' = [stopped EXCEPT ![s] = "rejected"]
  /\ UNCHANGED <<scorerVars, mediaRecorderRef, streamRef, audioChunksRef, nSess, recState,
                 onstop, queue, nData, live, mimeType, result, ending, cancelled, cancelledAwaiting>>

----------------------------------------------------------------------------
\* stopRecording (useAudioRecorder.ts:71-75)

\* stopRecording's test without the status conjunct.
StopGuardIgnoringStatus == mediaRecorderRef # 0

StopGuard == mediaRecorderRef # 0 /\ status = "recording"

StopRecording ==
  /\ IF StopGuard
       THEN /\ recState' = RecorderStopState(mediaRecorderRef)
            /\ queue' = RecorderStopQueue(mediaRecorderRef)
            /\ ending' = RecorderStopEnding(mediaRecorderRef, "stop")
       ELSE UNCHANGED <<recState, queue, ending>>
  /\ UNCHANGED <<scorerVars, hookVars, duration, nSess, acq, onstop, nData, live, mimeType,
                 stopped, result, cancelled, cancelledAwaiting>>

----------------------------------------------------------------------------
\* cancelRecording (useAudioRecorder.ts:77-90)

\* stopRecording() (or the duration cap) has told recorder s to finalize and
\* its stop event has not fired yet.
StopInFlight(s) ==
  /\ ending[s] \in {"stop", "cap"}
  /\ \E i \in 1..Len(queue[s]) : queue[s][i] = "stop"

\* Lines 78-83: detach onstop, then stop the recorder if it is recording.
CancelOnstop ==
  IF mediaRecorderRef # 0 THEN [onstop EXCEPT ![mediaRecorderRef] = FALSE] ELSE onstop

\* Lines 84-87: stop the tracks of the held stream.
CancelLive ==
  IF streamRef # 0 THEN [live EXCEPT ![streamRef] = FALSE] ELSE live

CancelRecording ==
  /\ onstop' = CancelOnstop
  /\ IF mediaRecorderRef # 0
       THEN /\ recState' = RecorderStopState(mediaRecorderRef)
            /\ queue' = RecorderStopQueue(mediaRecorderRef)
            /\ ending' = RecorderStopEnding(mediaRecorderRef, "cancel")
       ELSE UNCHANGED <<recState, queue, ending>>
  /\ live' = CancelLive
  /\ streamRef' = 0
  /\ audioChunksRef' = <<>>
  /\ status' = "inactive"
  /\ duration' = DurationAfter("inactive")
  /\ cancelled' = cancelled \cup {s \in Sessions : StopInFlight(s)}
  /\ cancelledAwaiting' = {s \in Sessions : acq[s] = "awaiting"}
  /\ UNCHANGED <<scorerVars, error, mediaRecorderRef, nSess, acq, nData, mimeType, stopped, result>>

----------------------------------------------------------------------------
\* Events of recorder s, each running the handler the code attached

\* The fragment a dataavailable event of recorder s carries.
Fragment(s) == <<s, nData[s] + 1>>

\* ondataavailable putting the newest fragment first.
OnDataAvailableUnshift(s, size) ==
  IF size > 0 THEN <<Fragment(s)>> \o audioChunksRef ELSE audioChunksRef

\* ondataavailable, lines 26-30: only a non-empty fragment is appended.
OnDataAvailable(s, size) ==
  IF size > 0 THEN Append(audioChunksRef, Fragment(s)) ELSE audioChunksRef

\* A dataavailable event while recorder s records (a timeslice the platform
\* imposes); it follows the recorder's start event.
DataAvailable(s) ==
  /\ recState[s] = "recording"
  /\ queue[s] = <<>>
  /\ nData[s] < MaxData
  /\ \E size \in {0, 1} : audioChunksRef' = OnDataAvailable(s, size)
  /\ nData' = [nData EXCEPT ![s] = nData[s] + 1]
  /\ UNCHANGED <<scorerVars, status, error, mediaRecorderRef, streamRef, duration, nSess, acq,
                 recState, onstop, queue, live, mimeType, stopped, result, ending, cancelled, cancelledAwaiting>>

\* The last dataavailable event, queued when the recorder was inactivated.
FinalDataAvailable(s) ==
  /\ queue[s] # <<>> /\ Head(queue[s]) = "dataavailable"
  /\ queue' = [queue EXCEPT ![s] = Tail(queue[s])]
  /\ \E size \in {0, 1} : audioChunksRef' = OnDataAvailable(s, size)
  /\ nData' = [nData EXCEPT ![s] = nData[s] + 1]
  /\ UNCHANGED <<scorerVars, status, error, mediaRecorderRef, streamRef, duration, nSess, acq,
                 recState, onstop, live, mimeType, stopped, result, ending, cancelled, cancelledAwaiting>>

\* An onstart handler that reports the recorder as paused.
OnstartStatusPaused == "paused"

\* Line 33: the status the onstart handler sets.
OnstartStatus == "recording"

\* onstart, lines 32-34.
StartEvent(s) ==
  /\ queue[s] # <<>> /\ Head(queue[s]) = "start"
  /\ queue' = [queue EXCEPT ![s] = Tail(queue[s])]
  /\ status' = OnstartStatus
  /\ duration' = DurationAfter(OnstartStatus)
  /\ UNCHANGED <<scorerVars, error, mediaRecorderRef, streamRef, audioChunksRef, nSess, acq,
                 recState, onstop, nData, live, mimeType, stopped, result, ending, cancelled, cancelledAwaiting>>

\* Line 38 without its fallback.
OnstopMimeTypeNoDefault == mimeType

\* Line 38: the label is read from mediaRecorderRef.current, with the default.
OnstopMimeType ==
  IF mimeType # "" THEN mimeType ELSE DefaultMimeType

\* resolve() of line 45 settles the promise only if it is still pending.
Resolve(s) == IF stopped[s] = "pending" THEN "resolved" ELSE stopped[s]

\* reject() of line 51, likewise.
Reject(s) == IF stopped[s] = "pending" THEN "rejected" ELSE stopped[s]

\* The stop event of recorder s; onstop, lines 37-46, runs if still attached.
StopEvent(s) ==
  /\ queue[s] # <<>> /\ Head(queue[s]) = "stop"
  /\ queue' = [queue EXCEPT ![s] = Tail(queue[s])]
  /\ IF onstop[s]
       THEN /\ audioChunksRef' = <<>>
            /\ status' = "stopped"
            /\ duration' = DurationAfter("stopped")
            /\ live' = [live EXCEPT ![s] = FALSE]
            /\ streamRef' = 0
            /\ stopped' = [stopped EXCEPT ![s] = Resolve(s)]
            /\ result' = IF stopped[s] = "pending"
                           THEN [result EXCEPT ![s] = [blob |-> audioChunksRef,
                                                       mimeType |-> OnstopMimeType]]
                           ELSE result
       ELSE UNCHANGED <<audioChunksRef, status, duration, live, streamRef,
                        stopped, result>>
  /\ UNCHANGED <<scorerVars, error, mediaRecorderRef, nSess, acq, recState, onstop, nData,
                 mimeType, ending, cancelled, cancelledAwaiting>>

\* A runtime error of recorder s while it records: onerror runs (lines 47-52),
\* which sets the error and rejects the promise and touches nothing else; the
\* platform inactivates the recorder, queueing its last dataavailable and stop
\* events.
ErrorEvent(s) ==
  /\ recState[s] = "recording"
  /\ error' = RecorderErrorMessage
  /\ stopped' = [stopped EXCEPT ![s] = Reject(s)]
  /\ recState' = RecorderStopState(s)
  /\ queue' = RecorderStopQueue(s)
  /\ ending' = RecorderStopEnding(s, "error")
  /\ UNCHANGED <<scorerVars, status, duration, live, mediaRecorderRef, streamRef,
                 audioChunksRef, nSess, acq, onstop, nData, mimeType, result,
                 cancelled, cancelledAwaiting>>

----------------------------------------------------------------------------
\* The duration timer (AudioUploader.tsx:119-131)

\* One tick of the interval, which runs while the rendered status is
\* 'recording'.  At the cap the updater calls handleStop(), i.e. stopRecording()
\* as rendered with status 'recording'.
Tick ==
  /\ status = "recording"
  /\ IF duration + 1 >= MAX_DURATION_SECONDS
       THEN /\ duration' = MAX_DURATION_SECONDS
            /\ IF StopGuard
                 THEN /\ recState' = RecorderStopState(mediaRecorderRef)
                      /\ queue' = RecorderStopQueue(mediaRecorderRef)
                      /\ ending' = RecorderStopEnding(mediaRecorderRef, "cap")
                 ELSE UNCHANGED <<recState, queue, ending>>
       ELSE /\ duration' = duration + 1
            /\ UNCHANGED <<recState, queue, ending>>
  /\ UNCHANGED <<scorerVars, hookVars, nSess, acq, onstop, nData, live, mimeType, stopped, result, cancelled, cancelledAwaiting>>

----------------------------------------------------------------------------
\* The controller under every interleaving of caller calls and device events.

Next ==
  \/ StartRecording
  \/ StopRecording
  \/ CancelRecording
  \/ \E s \in Sessions : GetUserMediaResolved(s)
  \/ \E s \in Sessions : GetUserMediaRejected(s)
  \/ \E s \in Sessions : StartEvent(s)
  \/ \E s \in Sessions : DataAvailable(s)
  \/ \E s \in Sessions : FinalDataAvailable(s)
  \/ \E s \in Sessions : StopEvent(s)
  \/ \E s \in Sessions : ErrorEvent(s)

Spec == Init /\ [][Next]_vars

----------------------------------------------------------------------------
\* The controller with its duration timer, under a caller that starts
\* recordings and then leaves them alone (no stopRecording(), no
\* cancelRecording()): the setting of the duration cap.  The interval fires
\* while it runs and the event loop delivers every queued event.

NextCap ==
  \/ StartRecording
  \/ Tick
  \/ \E s \in Sessions : GetUserMediaResolved(s)
  \/ \E s \in Sessions : GetUserMediaRejected(s)
  \/ \E s \in Sessions : StartEvent(s)
  \/ \E s \in Sessions : DataAvailable(s)
  \/ \E s \in Sessions : FinalDataAvailable(s)
  \/ \E s \in Sessions : StopEvent(s)
  \/ \E s \in Sessions : ErrorEvent(s)

FairCap ==
  /\ WF_vars(Tick)
  /\ \A s \in Sessions :
       /\ WF_vars(StartEvent(s))
       /\ WF_vars(FinalDataAvailable(s))
       /\ WF_vars(StopEvent(s))

SpecCap == Init /\ [][NextCap]_vars /\ FairCap

----------------------------------------------------------------------------
\* Similarity scorer (src/components/AnalysisResult.tsx)

\* A string is the sequence of its characters.  The alphabet has a letter in
\* both cases, a second letter and the space.
MaxLen == 3
Alphabet == {"a", "A", "b", " "}
Texts == UNION {[1..n -> Alphabet] : n \in 0..MaxLen}

\* Longer strings the scorer is also run on.
Kitten == <<"k", "i", "t", "t", "e", "n">>
Sitting == <<"s", "i", "t", "t", "i", "n", "g">>
Abc == <<"a", "b", "c">>
AbcPadded == <<" ", " ", "a", "b", "c", " ", " ">>
AbcUpper == <<"A", "B", "C">>
Punctuated == <<"a", ",", " ", "b", ".">>
Samples == {Kitten, Sitting, Abc, AbcPadded, AbcUpper, Punctuated}

Inputs == Texts \cup Samples

\* String.prototype.trim removes the white space at both ends.
WhiteSpace == {" "}

RECURSIVE trimStart(_)
trimStart(str) ==
  IF str # <<>> /\ Head(str) \in WhiteSpace THEN trimStart(Tail(str)) ELSE str

RECURSIVE trimEnd(_)
trimEnd(str) ==
  IF str # <<>> /\ str[Len(str)] \in WhiteSpace
    THEN trimEnd(SubSeq(str, 1, Len(str) - 1))
    ELSE str

trim(str) == trimEnd(trimStart(str))

\* String.prototype.toLowerCase maps each upper-case letter to its lower-case
\* form and leaves every other character as it is.
LowerCaseOf == ("A" :> "a") @@ ("B" :> "b") @@ ("C" :> "c")

toLowerCase(str) ==
  [i \in 1..Len(str) |-> IF str[i] \in DOMAIN LowerCaseOf THEN LowerCaseOf[str[i]] ELSE str[i]]

\* The normalisation without toLowerCase().
cleanKeepingCase(str) == trim(str)

\* The normalisation without trim().
cleanKeepingWhiteSpace(str) == toLowerCase(str)

\* Lines 58-59: a.trim().toLowerCase()
clean(str) == toLowerCase(trim(str))

MathMax(x, y) == IF x >= y THEN x ELSE y

MathMin(x, y, z) ==
  IF x <= y /\ x <= z THEN x ELSE IF y <= z THEN y ELSE z

\* A substitution that always costs 1.
substitutionCostAlways(x, y) == 1

\* Line 41: a[i - 1] === b[j - 1] ? 0 : 1
substitutionCost(x, y) == IF x = y THEN 0 ELSE 1

\* Lines 42-46 with a substitution counted as a deletion and an insertion.
matrixCellSubstitutionTwice(deletion, insertion, diagonal, cost) ==
  MathMin(deletion + 1, insertion + 1, diagonal + 2 * cost)

\* Lines 42-46 with the + 1 of the deletion missing.
matrixCellFreeDeletion(deletion, insertion, diagonal, cost) ==
  MathMin(deletion, insertion + 1, diagonal + cost)

\* Lines 42-46: matrix[j][i] from matrix[j][i - 1], matrix[j - 1][i] and
\* matrix[j - 1][i - 1].
matrixCell(deletion, insertion, diagonal, cost) ==
  MathMin(deletion + 1, insertion + 1, diagonal + cost)

\* Lines 25-51.  matrix[j][i] is the distance between the first i characters
\* of a and the first j characters of b; row 0 and column 0 are filled by the
\* loops of lines 31-37.
calculateLevenshteinDistance(a, b) ==
  IF Len(a) = 0 THEN Len(b)
  ELSE IF Len(b) = 0 THEN Len(a)
  ELSE LET matrix[j \in 0..Len(b), i \in 0..Len(a)] ==
             IF j = 0 THEN i
             ELSE IF i = 0 THEN j
             ELSE matrixCell(matrix[j, i - 1], matrix[j - 1, i], matrix[j - 1, i - 1],
                             substitutionCost(a[i], b[j]))
       IN  matrix[Len(b), Len(a)]

\* Lines 67 and 69 divide and multiply JavaScript numbers, which are binary
\* floating-point numbers with a significand of MantissaBits bits, every
\* operation rounding its exact result to the nearest such number, a tie going
\* to the even significand.  A number is modelled by its sign, its significand
\* and its exponent: the number is sign * significand * 2^exp.  A significand
\* is a natural number written in limbs of LimbBits bits, the most significant
\* limb first.
MantissaBits == 53
LimbBits == 15
Limb == 2 ^ LimbBits

\* Limb i of a natural number, 0 before the first one.
At(big, i) == IF i \in 1..Len(big) THEN big[i] ELSE 0

\* The number of bits of a natural number, 0 for 0.
BitLength(big) ==
  LET set == {i \in 1..Len(big) : big[i] # 0}
  IN  IF set = {}
        THEN 0
        ELSE LET first == CHOOSE i \in set : \A j \in set : i <= j
                 width == CHOOSE k \in 1..LimbBits :
                            2 ^ (k - 1) <= big[first] /\ big[first] < 2 ^ k
             IN  (Len(big) - first) * LimbBits + width

\* big \div 2^k.
ShiftRight(big, k) ==
  LET q == k \div LimbBits
      r == k % LimbBits
  IN  [i \in 1..Len(big) |->
         (At(big, i - q - 1) % 2 ^ r) * 2 ^ (LimbBits - r)
           + At(big, i - q) \div 2 ^ r]

\* Bit k of a natural number, bit 0 being the least significant one.
Bit(big, k) == (At(big, Len(big) - k \div LimbBits) \div 2 ^ (k % LimbBits)) % 2

\* Whether big is a multiple of 2^k.
LowBitsZero(big, k) ==
  /\ \A i \in 1..Len(big) : i > Len(big) - k \div LimbBits => big[i] = 0
  /\ At(big, Len(big) - k \div LimbBits) % 2 ^ (k % LimbBits) = 0

\* big + 1, a limb changing when every limb after it is full.
Increment(big) ==
  [i \in 1..Len(big) |->
     IF \A j \in (i + 1)..Len(big) : big[j] = Limb - 1
       THEN (big[i] + 1) % Limb
       ELSE big[i]]

\* What the limbs after limb i carry into limb i of 100 * big.
RECURSIVE Carry(_, _)
Carry(big, i) ==
  IF i >= Len(big) THEN 0 ELSE (100 * big[i + 1] + Carry(big, i + 1)) \div Limb

\* The number nearest to sign * (big + rest) * 2^exp, where rest is 0, or
\* positive and below 1 when sticky: round to nearest, ties to even.
RoundToNumber(sign, big, exp, sticky) ==
  LET drop == BitLength(big) - MantissaBits
  IN  IF drop <= 0
        THEN [sign |-> sign, mant |-> big, exp |-> exp]
        ELSE LET kept == ShiftRight(big, drop)
                 half == Bit(big, drop - 1)
                 rest == sticky \/ ~LowBitsZero(big, drop - 1)
                 up == half = 1 /\ (rest \/ Bit(kept, 0) = 1)
             IN  [sign |-> sign,
                  mant |-> IF up THEN Increment(kept) ELSE kept,
                  exp |-> exp + drop]

\* Line 67: the number num / den of two integers, 0 < den < 2^16 and
\* |num| < den * Limb: the quotient by long division, its fraction taken to
\* five limbs.
Divide(num, den) ==
  LET n == IF num < 0 THEN -num ELSE num
      r0 == n % den
      r1 == (r0 * Limb) % den
      r2 == (r1 * Limb) % den
      r3 == (r2 * Limb) % den
      r4 == (r3 * Limb) % den
      r5 == (r4 * Limb) % den
      quotient == <<0, n \div den, (r0 * Limb) \div den, (r1 * Limb) \div den,
                    (r2 * Limb) \div den, (r3 * Limb) \div den,
                    (r4 * Limb) \div den>>
  IN  RoundToNumber(IF num < 0 THEN -1 ELSE 1, quotient, -(5 * LimbBits),
                    r5 # 0)

\* Line 69: the number x * 100.
Times100(x) ==
  RoundToNumber(x.sign,
                [i \in 1..Len(x.mant) |->
                   (100 * x.mant[i] + Carry(x.mant, i)) % Limb],
                x.exp, FALSE)

\* Of the magnitude of a number below 2^30: the integer part, the first bit
\* after the point, and whether a later bit is set.
Parts(x) ==
  LET s == -x.exp
      whole == ShiftRight(x.mant, s)
      n == Len(whole)
  IN  [whole |-> whole[n - 1] * Limb + whole[n],
       half |-> IF s >= 1 THEN Bit(x.mant, s - 1) ELSE 0,
       rest |-> s >= 1 /\ ~LowBitsZero(x.mant, s - 1)]

\* Math.ceil.
MathCeil(x) ==
  LET p == Parts(x)
      fraction == p.half = 1 \/ p.rest
  IN  IF x.sign = 1
        THEN p.whole + (IF fraction THEN 1 ELSE 0)
        ELSE -p.whole

\* Math.floor.
MathFloor(x) ==
  LET p == Parts(x)
      fraction == p.half = 1 \/ p.rest
  IN  IF x.sign = 1
        THEN p.whole
        ELSE -(p.whole + (IF fraction THEN 1 ELSE 0))

\* Line 69, Math.round: the nearest integer, a half going up.
MathRound(x) ==
  LET p == Parts(x)
  IN  IF x.sign = 1
        THEN p.whole + p.half
        ELSE -(p.whole + (IF p.half = 1 /\ p.rest THEN 1 ELSE 0))

\* The percentage with the division by maxLength left out.
percentUndivided(maxLength, distance) ==
  MathMax(0, 100 * (maxLength - distance))

\* Line 67 and the rounding of line 69, before the clamp.
rounded(maxLength, distance) ==
  MathRound(Times100(Divide(maxLength - distance, maxLength)))

\* Lines 67-69: Math.max(0, Math.round((maxLength - distance) / maxLength * 100))
percent(maxLength, distance) == MathMax(0, rounded(maxLength, distance))

\* Lines 57-70.
calculateTextSimilarity(a, b) ==
  LET cleanA == clean(a)
      cleanB == clean(b)
      maxLength == MathMax(Len(cleanA), Len(cleanB))
  IN  IF maxLength = 0
        THEN 100
        ELSE percent(maxLength, calculateLevenshteinDistance(cleanA, cleanB))

\* An analysis report is rendered with a script and a transcription; the
\* recorder is at rest, on a platform whose recorders report no type.
InitScorer ==
  /\ InitRecorder
  /\ mimeType = ""
  /\ textA \in Inputs
  /\ textB \in Inputs
  /\ scoredMaxLength = 0
  /\ scoredDistance = 0
  /\ similarity = "none"
  /\ scorerPc = "ready"

\* AnalysisResult's useMemo (lines 111-113) calls the scorer on the two texts.
Score ==
  /\ scorerPc = "ready"
  /\ scoredMaxLength = 0
  /\ similarity' = calculateTextSimilarity(textA, textB)
  /\ scorerPc' = "done"
  /\ UNCHANGED <<recorderVars, textA, textB, scoredMaxLength, scoredDistance>>

NextScorer == Score

SpecScorer == InitScorer /\ [][NextScorer]_vars

\* Strings with white space and punctuation inside them: a letter, the space
\* and a full stop.
PunctuationAlphabet == {"a", " ", "."}
PunctuatedTexts == UNION {[1..n -> PunctuationAlphabet] : n \in 0..MaxLen}

\* An analysis report is rendered with a script and a transcription that
\* hold white space and punctuation.
InitPunctuated ==
  /\ InitRecorder
  /\ mimeType = ""
  /\ textA \in PunctuatedTexts
  /\ textB \in PunctuatedTexts
  /\ scoredMaxLength = 0
  /\ scoredDistance = 0
  /\ similarity = "none"
  /\ scorerPc = "ready"

SpecPunctuated == InitPunctuated /\ [][NextScorer]_vars

\* Lines 67-69 on their own: the scorer has reached line 67 with the longer
\* normalised string of maxLength characters, up to MaxLongest of them, and a
\* distance of at most maxLength.
MaxLongest == 200

InitPercent ==
  /\ InitRecorder
  /\ mimeType = ""
  /\ textA = <<>>
  /\ textB = <<>>
  /\ scoredMaxLength \in 1..MaxLongest
  /\ scoredDistance \in 0..scoredMaxLength
  /\ similarity = "none"
  /\ scorerPc = "ready"

\* Lines 67-69 run to the return.
Percent ==
  /\ scorerPc = "ready"
  /\ scoredMaxLength > 0
  /\ similarity' = percent(scoredMaxLength, scoredDistance)
  /\ scorerPc' = "done"
  /\ UNCHANGED <<recorderVars, textA, textB, scoredMaxLength, scoredDistance>>

NextPercent == Percent

SpecPercent == InitPercent /\ [][NextPercent]_vars

----------------------------------------------------------------------------
\* Claims

\* C1: if cancelRecording() is invoked after a stop has been requested for a
\* session and before that session's stop event fires, the session's promise
\* is never resolved: no payload and label are delivered for it in any later
\* state.
C1_NoPayloadAfterCancel ==
  \A s \in cancelled : stopped[s] # "resolved"

\* C2: once the duration has reached the cap while the status is 'recording',
\* the controller has triggered the finalize path of stopRecording(): some
\* recorder's stop event is in flight with onstop attached, so that the status
\* becomes 'stopped'; no session is left recording at the cap with nothing
\* pending to end it.
C2_CapFinalizes ==
  (status = "recording" /\ duration = MAX_DURATION_SECONDS) =>
     \E s \in Sessions :
        /\ onstop[s]
        /\ \E i \in 1..Len(queue[s]) : queue[s][i] = "stop"

\* C3: startRecording() called while the session is recording changes nothing:
\* the status is still 'recording' (so the timer keeps running and a later
\* stopRecording() still passes its guard), and the chunk buffer, the recorder
\* and the stream are as they were.
C3_StartWhileRecordingIsNoOp ==
  [][(StartRecording /\ status = "recording" /\ mediaRecorderRef # 0
        /\ recState[mediaRecorderRef] = "recording")
       => /\ status' = "recording"
          /\ UNCHANGED <<audioChunksRef, mediaRecorderRef, streamRef, recState,
                         live, duration>>]_vars

\* C4: startRecording() called while the current recorder is recording requests
\* no device and builds no recorder: no session is added or left awaiting, and
\* the sessions that are recording and the streams that are live are the same
\* as before (one active session stays exactly one).
C4_SecondStartAcquiresNothing ==
  [][(StartRecording /\ mediaRecorderRef # 0
        /\ recState[mediaRecorderRef] = "recording")
       => /\ nSess' = nSess
          /\ acq' = acq
          /\ recState' = recState
          /\ live' = live
          /\ mediaRecorderRef' = mediaRecorderRef
          /\ streamRef' = streamRef]_vars

\* A second startRecording() has run while the first and only session records.
C4_Witness ==
  nSess = 1 /\ recState[1] = "recording" /\ status = "inactive"

\* C5: in every reachable state at most one stream is live, and a live stream
\* is the one streamRef holds.
C5_OneDeviceHandle ==
  /\ Cardinality({s \in Sessions : live[s]}) <= 1
  /\ \A s \in Sessions : live[s] => streamRef = s

\* C6: after cancelRecording(), from any state, the status is 'inactive', the
\* chunk buffer is empty, the recorder is not recording, and no stream is
\* live: no capture device remains held.
C6_CancelReleasesEverything ==
  [][CancelRecording
       => /\ status' = "inactive"
          /\ audioChunksRef' = <<>>
          /\ \A s \in Sessions : recState'[s] # "recording"
          /\ \A s \in Sessions : ~live'[s]]_vars

\* C7: when the stop event of a session that stopRecording() (or the cap) told
\* to finalize runs onstop, the promise of the session, pending until then, is
\* resolved with the whole chunk buffer as payload, labelled with the
\* recorder's mimeType, or 'audio/webm' if it reports none; the status becomes
\* 'stopped', the chunk buffer is emptied and the tracks of the session's
\* stream are stopped.
C7_FinalizeDeliversPayload ==
  [][\A s \in Sessions :
       (StopEvent(s) /\ onstop[s] /\ ending[s] \in {"stop", "cap"})
         => /\ stopped[s] = "pending"
            /\ stopped'[s] = "resolved"
            /\ result'[s] = [blob |-> audioChunksRef,
                             mimeType |-> IF mimeType = "" THEN "audio/webm"
                                          ELSE mimeType]
            /\ status' = "stopped"
            /\ audioChunksRef' = <<>>
            /\ ~live'[s]]_vars

\* A stopped session has delivered two fragments under the default label.
C7_Witness ==
  \E s \in Sessions :
     /\ ending[s] = "stop"
     /\ stopped[s] = "resolved"
     /\ Len(result[s].blob) = 2
     /\ result[s].mimeType = "audio/webm"
     /\ status = "stopped"

\* C8: once the error event of a recording session has been processed, the
\* error is reported, the tracks of the session's stream are stopped, and the
\* controller is not left in 'recording' with a live device.
C8_ErrorReleasesDevice ==
  [][\A s \in Sessions :
       ErrorEvent(s)
         => /\ error' # NoError
            /\ ~live'[s]
            /\ ~(status' = "recording" /\ \E t \in Sessions : live'[t])]_vars

C10_NoRejectedPromise ==
  \A s \in Sessions : stopped[s] # "rejected"

\* C11: cancel() called while status is 'inactive' is a no-op: it sets no
\* error message, acquires no device and touches none (no recorder changes
\* state or queues an event, no track is stopped, no handler is detached, the
\* stream handle is left as it is), and it leaves status 'inactive' with an
\* empty chunk buffer.
C11_CancelWhenInactiveIsNoOp ==
  [][(CancelRecording /\ status = "inactive") =>
        /\ status' = "inactive"
        /\ audioChunksRef' = <<>>
        /\ UNCHANGED <<error, nSess, acq, recState, queue, live, onstop, streamRef>>]_vars

\* C12: the elapsed seconds never exceed MAX_DURATION_SECONDS, and the tick
\* that brings them to the maximum forces the transition to 'stopped': after
\* it some recorder has its stop event queued with onstop attached.
C12_ElapsedCapped ==
  [][/\ duration' <= MAX_DURATION_SECONDS
     /\ (duration < MAX_DURATION_SECONDS /\ duration' = MAX_DURATION_SECONDS) =>
           \E s \in Sessions :
              /\ onstop'[s]
              /\ \E i \in 1..Len(queue'[s]) : queue'[s][i] = "stop"]_vars

\* A sequence of fragments lists each session's fragments in the order the
\* recorder delivered them.
InDeliveryOrder(chunks) ==
  \A i, j \in 1..Len(chunks) :
     (i < j /\ chunks[i][1] = chunks[j][1]) => chunks[i][2] < chunks[j][2]

\* C13: fragments are appended to the chunk buffer in delivery order, and a
\* finalized payload is the concatenation of its fragments in that order: in
\* the buffer and in every payload, of two fragments of a session the one
\* delivered first comes first.
C13_FragmentsInDeliveryOrder ==
  /\ InDeliveryOrder(audioChunksRef)
  /\ \A s \in Sessions : InDeliveryOrder(result[s].blob)

\* A payload made of two fragments of its session.
C13_Witness ==
  /\ stopped[1] = "resolved"
  /\ result[1].blob = <<<<1, 1>>, <<1, 2>>>>

\* C14: stop() has an effect only when status is 'recording': called in
\* 'inactive' or 'stopped' it sends no stop signal to any recorder, delivers
\* no payload, and leaves status, chunk buffer, error and device handle as
\* they were.
C14_StopOnlyWhenRecording ==
  [][(StopRecording /\ status \in {"inactive", "stopped"}) =>
        UNCHANGED <<recState, queue, ending, stopped, result, status,
                    audioChunksRef, error, streamRef, mediaRecorderRef, live>>]_vars

\* stop() has something it could stop, and the status is not 'recording'.
C14_Witness ==
  /\ status = "inactive"
  /\ mediaRecorderRef # 0
  /\ recState[mediaRecorderRef] = "recording"

\* C15: calculateTextSimilarity returns an integer from 0 to 100 for every
\* pair of strings, the empty and the all-white-space ones included.
C15_SimilarityInRange ==
  scorerPc = "done" => similarity \in 0..100

\* The scorer has returned for an empty string and an all-white-space one.
C15_Witness ==
  /\ scorerPc = "done"
  /\ textA = <<>>
  /\ textB = <<" ", " ">>
  /\ similarity = 100

\* C16: a string compared with itself scores 100, the empty string included.
C16_SelfSimilarity ==
  (scorerPc = "done" /\ textA = textB) => similarity = 100

\* The scorer has returned for a non-empty string and itself.
C16_Witness ==
  /\ scorerPc = "done"
  /\ textA = <<"a", " ", "b">>
  /\ textB = textA

\* C17: the score does not depend on the order of the two arguments.
C17_Symmetric ==
  scorerPc = "done" => similarity = calculateTextSimilarity(textB, textA)

\* The scorer has returned for two strings of different lengths, neither a
\* copy of the other.
C17_Witness ==
  /\ scorerPc = "done"
  /\ textA = <<"a", "b">>
  /\ textB = <<"a">>
  /\ similarity = 50

\* C18: letter case does not count: two strings score what any two strings
\* differing from them only in letter case score, which is what their
\* lower-case forms score.
C18_CaseInsensitive ==
  scorerPc = "done" =>
    similarity = calculateTextSimilarity(toLowerCase(textA), toLowerCase(textB))

\* The scorer has returned for two strings that differ in case only.
C18_Witness ==
  /\ scorerPc = "done"
  /\ textA = <<"A", "b">>
  /\ textB = <<"a", "b">>
  /\ similarity = 100

\* C19: white space at the ends does not count: two strings score what their
\* trimmed forms score, and a string compared with a padded copy of itself
\* scores 100.
C19_TrimInsensitive ==
  scorerPc = "done" =>
    /\ similarity = calculateTextSimilarity(trim(textA), trim(textB))
    /\ trim(textA) = trim(textB) => similarity = 100

\* The scorer has returned for "  abc  " and "abc".
C19_Witness ==
  /\ scorerPc = "done"
  /\ textA = AbcPadded
  /\ textB = Abc
  /\ similarity = 100

\* C20: "kitten" and "sitting" are at distance 3 and score 57.
C20_KittenSitting ==
  (scorerPc = "done" /\ textA = Kitten /\ textB = Sitting) =>
    /\ calculateLevenshteinDistance(clean(textA), clean(textB)) = 3
    /\ similarity = 57

\* The scorer has returned for "kitten" and "sitting".
C20_Witness ==
  /\ scorerPc = "done"
  /\ textA = Kitten
  /\ textB = Sitting

\* The characters of a string.
CharactersOf(str) == {str[i] : i \in 1..Len(str)}

\* The strings one single-character edit away from str: a character deleted,
\* a character replaced by another one, a character inserted.
OneEdit(str, chars) ==
  {SubSeq(str, 1, i - 1) \o SubSeq(str, i + 1, Len(str)) : i \in 1..Len(str)}
  \cup UNION {{[str EXCEPT ![i] = c] : c \in chars \ {str[i]}} : i \in 1..Len(str)}
  \cup {SubSeq(str, 1, i) \o <<c>> \o SubSeq(str, i + 1, Len(str)) :
           i \in 0..Len(str), c \in chars}

\* The least number of single-character edits that turn some string of
\* frontier into target, steps edits having led from the source to frontier.
\* Intermediate strings are built from the characters of the two strings and
\* are no longer than longest.
RECURSIVE EditSteps(_, _, _, _, _, _)
EditSteps(seen, frontier, target, chars, longest, steps) ==
  IF target \in frontier
    THEN steps
    ELSE LET next == {str \in UNION {OneEdit(f, chars) : f \in frontier} :
                        Len(str) <= longest /\ str \notin seen}
         IN  EditSteps(seen \cup next, next, target, chars, longest, steps + 1)

\* The minimum number of single-character insertions, deletions and
\* substitutions that turn a into b.
EditDistance(a, b) ==
  EditSteps({a}, {a}, b, CharactersOf(a) \cup CharactersOf(b),
            MathMax(Len(a), Len(b)) + 1, 0)

\* The integer nearest to 100 * (maxLen - d) / maxLen, a half going up.
RoundedPercent(maxLen, d) ==
  CHOOSE r \in 0..100 :
    /\ 2 * r * maxLen - maxLen <= 200 * (maxLen - d)
    /\ 200 * (maxLen - d) < 2 * r * maxLen + maxLen

\* C21: the value of the matrix is the minimum number of single-character
\* insertions, deletions and substitutions between the normalised strings,
\* white space and punctuation inside them counting like any character, and
\* the score is round(100 * (maxLen - distance) / maxLen).  This is the score:
\* whatever the longer length and the distance, the score returned is the
\* exact quotient rounded to the nearest integer.
C21_ScoreIsRoundedQuotient ==
  (scorerPc = "done" /\ scoredMaxLength > 0) =>
    similarity = RoundedPercent(scoredMaxLength, scoredDistance)

\* C21 on short strings with white space and punctuation inside them: the
\* value of the matrix is the minimum number of single-character edits, and
\* the score of these strings is the rounded quotient.
C21_DistanceIsEditDistance ==
  scorerPc = "done" =>
    LET cleanA == clean(textA)
        cleanB == clean(textB)
        maxLen == MathMax(Len(cleanA), Len(cleanB))
        d == EditDistance(cleanA, cleanB)
    IN  /\ calculateLevenshteinDistance(cleanA, cleanB) = d
        /\ maxLen > 0 => similarity = RoundedPercent(maxLen, d)

\* The scorer has returned for "a a" and "a.a": one substitution of an inner
\* character, 67.
C21_Witness ==
  /\ scorerPc = "done"
  /\ textA = <<"a", " ", "a">>
  /\ textB = <<"a", ".", "a">>
  /\ similarity = 67

\* C22: on every successful device acquisition start() moves to 'recording'
\* with the chunk buffer empty and the elapsed seconds at 0, whatever became
\* of the session before.
C22_StartResets ==
  [][\A s \in Sessions :
        GetUserMediaResolved(s) =>
          /\ status' = "recording"
          /\ audioChunksRef' = <<>>
          /\ duration' = 0]_vars

\* C23: a fragment is appended to the chunk buffer only while status is
\* 'recording': a dataavailable event handled after cancel(), or in
\* 'inactive' or 'stopped', appends nothing.
C23_AppendOnlyWhileRecording ==
  [][Len(audioChunksRef') > Len(audioChunksRef) => status = "recording"]_vars

\* C24: while status is 'recording' the elapsed seconds never decrease and
\* every timer tick adds exactly one; while status is not 'recording' no tick
\* or event changes them; and they are 0 at the moment a new recording
\* starts.
C24_ElapsedMonotone ==
  [][/\ (status = "recording" /\ status' = "recording") => duration' >= duration
     /\ Tick => duration' = duration + 1
     /\ (status # "recording" /\ status' # "recording") => duration' = duration
     /\ \A s \in Sessions : GetUserMediaResolved(s) => duration' = 0]_vars

\* C25: 'paused' is never reached: in every reachable state the status is
\* 'inactive', 'recording' or 'stopped'.
C25_NeverPaused ==
  status \in RecordingStatus \ {"paused"}

\* A session has run from start() to its finalize: the status has been
\* 'inactive', 'recording' and is now 'stopped'.
C25_Witness ==
  /\ status = "stopped"
  /\ stopped[1] = "resolved"

\* C26: the payload delivered when a session finalizes is made of fragments
\* the device delivered for that session: no fragment of another session,
\* such as the one flushed after cancel() stopped an earlier recorder, is in
\* it.
C26_PayloadOfOwnSession ==
  \A s \in Sessions :
     stopped[s] = "resolved" =>
       \A i \in 1..Len(result[s].blob) : result[s].blob[i][1] = s

\* C27: the controller never signals stop to a recorder that is not
\* recording: in every state where a stop() call, or the tick at the cap,
\* would reach the recorder's stop(), that recorder is recording, so that a
\* second stop() issued before the stop event has changed the status does
\* not reach it.
C27_StopReachesRecordingDeviceOnly ==
  StopGuard => recState[mediaRecorderRef] = "recording"

\* C28: a start() that was awaiting the device when cancel() ran does not
\* take effect afterwards: while no further start() is called, its
\* acquisition, once granted, leaves no live device and no recording
\* recorder behind, and does not make the status 'recording'.
C28_CancelledStartHasNoEffect ==
  \A s \in cancelledAwaiting :
     acq[s] = "granted" =>
       /\ ~live[s]
       /\ recState[s] # "recording"
       /\ ~(status = "recording" /\ mediaRecorderRef = s)

\* C29 as stated: the score is 100 only when the normalised strings are
\* identical: for every maxLength >= 1 and every distance from 1 to maxLength
\* the rounded percentage is at most 99.
C29_HundredOnlyWhenIdentical ==
  (scorerPc = "done" /\ scoredDistance >= 1) => similarity <= 99

\* C29, amended: the score is 100 exactly when 200 * distance <= maxLength,
\* so that strings whose longer normalised length is below 200 score 100
\* only when they are identical.
C29_HundredWhenWithinHalfPercent ==
  scorerPc = "done" /\ scoredMaxLength > 0 =>
    /\ similarity = 100 <=> 200 * scoredDistance <= scoredMaxLength
    /\ (scoredMaxLength < 200 /\ scoredDistance >= 1) => similarity <= 99

\* Lines 67-69 have run for 199 characters and one edit: 99.
C29_Witness ==
  /\ scorerPc = "done"
  /\ scoredMaxLength = 199
  /\ scoredDistance = 1
  /\ similarity = 99

\* C30: the clamp to 0 never changes the result: the distance is at most the
\* longer normalised length, so the rounded value is not negative and is the
\* score; and when exactly one normalised string is empty the distance is
\* that length and the score is 0.
C30_ClampNeverActs ==
  scorerPc = "done" =>
    LET cleanA == clean(textA)
        cleanB == clean(textB)
        maxLen == MathMax(Len(cleanA), Len(cleanB))
        d == calculateLevenshteinDistance(cleanA, cleanB)
    IN  /\ d <= maxLen
        /\ maxLen > 0 =>
             /\ rounded(maxLen, d) >= 0
             /\ similarity = rounded(maxLen, d)
        /\ ((cleanA = <<>>) # (cleanB = <<>>)) =>
             /\ d = maxLen
             /\ similarity = 0

\* The scorer has returned for a blank script and the transcription "a.".
C30_Witness ==
  /\ scorerPc = "done"
  /\ textA = <<" ">>
  /\ textB = <<"a", ".">>
  /\ similarity = 0

====
